---- MODULE Spec2Model ----
(***************************************************************************)
(* Omni-Tutor: the tutoring session state machine of the App component,    *)
(* the model gateway (analyzeHomework / evaluatePracticeResponse) and the  *)
(* history store (getHistory / saveToHistory / clearHistory).              *)
(*                                                                         *)
(* React state is one variable per useState cell.  An event handler runs   *)
(* to its first await as one step; the continuation after the await is a   *)
(* second step, taken when the model service answers.  A handler reads the *)
(* state of the render it was created in: an event handler therefore reads *)
(* the current state, a continuation reads the values captured when the    *)
(* handler started (kept in the call record).                              *)
(***************************************************************************)
EXTENDS Integers, Sequences, FiniteSets, Bags, TLC

VARIABLES
    image,              \* useState<File | null>
    textInput,          \* useState('')
    audioBlob,          \* useState<Blob | null>
    diagnosis,          \* useState<InitialDiagnosis | null>
    chatHistory,        \* useState<ChatMessage[]>
    replyText,          \* useState('')
    replyAudio,         \* useState<Blob | null>
    isMasteryAchieved,  \* useState(false)
    isLoading,          \* useState(false)
    error,              \* useState<string | null>
    history,            \* useState<HistoryItem[]>
    showHistory,        \* useState(false)
    recorder,           \* hasRecording of the two AudioRecorder instances
    crashed,            \* the render threw and React unmounted the tree
    apiKey,             \* process.env.API_KEY is set
    storage,            \* localStorage[HISTORY_KEY]
    clock,              \* Date.now(), also the source of fresh ids
    calls,              \* the gateway calls in flight (a bag of call records)
    recorded,           \* the items saveToHistory returned since the last clear
    submitted,          \* the submissions accepted so far
    gw                  \* gateway harness: the last input and outcome

vars == <<image, textInput, audioBlob, diagnosis, chatHistory, replyText,
          replyAudio, isMasteryAchieved, isLoading, error, history,
          showHistory, recorder, crashed, apiKey, storage, clock, calls,
          recorded, submitted, gw>>

uiVars == <<image, textInput, audioBlob, diagnosis, chatHistory, replyText,
            replyAudio, isMasteryAchieved, isLoading, error, history,
            showHistory, recorder, crashed>>

-----------------------------------------------------------------------------
(* Bounds of the model.                                                    *)

\* submissions (Start Diagnosis, Reply, Enter) explored in one behaviour of
\* the session state machine
MaxSubmits == 2
\* saveToHistory calls explored by the history store on its own
MaxRecords == 52
\* saveToHistory calls explored when two execution contexts share the store
MaxSharedRecords == 5

-----------------------------------------------------------------------------
(* JavaScript values.                                                      *)

\* null, for object-valued cells
Null == [js |-> "null"]
\* null, for the string-valued cell `error`
NoError == "<null>"
\* undefined, as the value of a string-valued property that is absent; it
\* is also what a template literal prints for undefined
Undefined == "undefined"

\* obj.f : an absent property reads as undefined
Get(obj, f) == IF f \in DOMAIN obj THEN obj[f] ELSE Undefined

\* {...a, ...b} : b's properties override a's
Spread(a, b) == b @@ a

-----------------------------------------------------------------------------
(* Program constants.                                                      *)

MAX_FILE_SIZE_MB == 10
MAX_FILE_SIZE_BYTES == MAX_FILE_SIZE_MB * 1024 * 1024
ALLOWED_TYPES == {"image/jpeg", "image/png", "image/webp"}
HISTORY_LIMIT == 50

-----------------------------------------------------------------------------
(* The model service: what generateContent can answer.  A response either  *)
(* carries text or carries none (response.text is undefined).              *)

TextD1 == "{\"stage\":\"INITIAL_DIAGNOSIS\",\"conceptual_misunderstanding\":\"cm\",\"new_practice_question\":{\"topic\":\"t\",\"question_text\":\"q\"},\"tutor_feedback\":\"tf\",\"next_instruction\":\"i1\"}"
TextD2 == "{\"stage\":\"INITIAL_DIAGNOSIS\",\"conceptual_misunderstanding\":\"cm\",\"new_practice_question\":{\"topic\":\"t\",\"question_text\":\"q\"},\"tutor_feedback\":\"tf\",\"next_instruction\":\"i2\"}"
TextNoInstruction == "{\"stage\":\"INITIAL_DIAGNOSIS\",\"conceptual_misunderstanding\":\"cm\",\"new_practice_question\":{\"topic\":\"t\",\"question_text\":\"q\"},\"tutor_feedback\":\"tf\"}"
TextNoQuestion == "{\"stage\":\"INITIAL_DIAGNOSIS\",\"conceptual_misunderstanding\":\"cm\",\"tutor_feedback\":\"tf\",\"next_instruction\":\"i1\"}"
TextContinue == "{\"stage\":\"CONVERSATIONAL_FEEDBACK\",\"evaluation_result\":\"CONCEPT_ERROR\",\"feedback_message\":\"Not quite.\",\"dialogue_action\":\"CONTINUE\",\"next_instruction\":\"Try again.\"}"
TextMastery == "{\"stage\":\"CONVERSATIONAL_FEEDBACK\",\"evaluation_result\":\"CORRECT\",\"feedback_message\":\"Well done.\",\"dialogue_action\":\"MASTERY_ACHIEVED\",\"next_instruction\":\"Finished.\"}"
TextEmptyObject == "{}"
TextArray == "[]"
TextNumber == "42"
TextString == "\"ok\""
TextNull == "null"
TextNotJSON == "I am sorry, I cannot help with that."
TextEmpty == ""

\* a response with text, and one without
WithText(t) == [text |-> t]
NoText == [finishReason |-> "SAFETY"]

\* JSON.parse, on the texts above: the parsed value, or a SyntaxError.  A
\* value is its typeof-like kind and its own properties.
JSValue(kind, props) == [threw |-> FALSE, kind |-> kind, props |-> props]
SyntaxError == [threw |-> TRUE, kind |-> "SyntaxError", props |-> <<>>]

Question == [topic |-> "t", question_text |-> "q"]

JSONParse(t) ==
    CASE t = TextD1 ->
            JSValue("object", [stage |-> "INITIAL_DIAGNOSIS",
                               conceptual_misunderstanding |-> "cm",
                               new_practice_question |-> Question,
                               tutor_feedback |-> "tf",
                               next_instruction |-> "i1"])
      [] t = TextD2 ->
            JSValue("object", [stage |-> "INITIAL_DIAGNOSIS",
                               conceptual_misunderstanding |-> "cm",
                               new_practice_question |-> Question,
                               tutor_feedback |-> "tf",
                               next_instruction |-> "i2"])
      [] t = TextNoInstruction ->
            JSValue("object", [stage |-> "INITIAL_DIAGNOSIS",
                               conceptual_misunderstanding |-> "cm",
                               new_practice_question |-> Question,
                               tutor_feedback |-> "tf"])
      [] t = TextNoQuestion ->
            JSValue("object", [stage |-> "INITIAL_DIAGNOSIS",
                               conceptual_misunderstanding |-> "cm",
                               tutor_feedback |-> "tf",
                               next_instruction |-> "i1"])
      [] t = TextContinue ->
            JSValue("object", [stage |-> "CONVERSATIONAL_FEEDBACK",
                               evaluation_result |-> "CONCEPT_ERROR",
                               feedback_message |-> "Not quite.",
                               dialogue_action |-> "CONTINUE",
                               next_instruction |-> "Try again."])
      [] t = TextMastery ->
            JSValue("object", [stage |-> "CONVERSATIONAL_FEEDBACK",
                               evaluation_result |-> "CORRECT",
                               feedback_message |-> "Well done.",
                               dialogue_action |-> "MASTERY_ACHIEVED",
                               next_instruction |-> "Finished."])
      [] t = TextEmptyObject -> JSValue("object", <<>>)
      [] t = TextArray -> JSValue("array", <<>>)
      [] t = TextNumber -> JSValue("number", <<>>)
      [] t = TextString -> JSValue("string", <<>>)
      [] t = TextNull -> JSValue("null", <<>>)
      [] OTHER -> SyntaxError

-----------------------------------------------------------------------------
(* Model Gateway.                                                          *)

\* the outcome of an async function: it threw, or it returned a value
Throw(m) == [threw |-> TRUE, message |-> m]
Return(v) == [threw |-> FALSE, value |-> v]

\* !textResponse
Falsy(t) == t = Undefined \/ t = ""

\* getAIClient throws when process.env.API_KEY is not set
MissingKeyMessage == "API Key is missing. Please set process.env.API_KEY."

\* data.diagnosed_error_step = ...; data.status = ... : a TypeError on null
\* and, the module being strict code, on a number or a string
CanSetProperty(v) == v.kind \in {"object", "array"}

CompatibilityFields == [diagnosed_error_step |-> "Concept Error", status |-> "Diagnosis"]

\* an analyzeHomework that creates its client inside the try block, so
\* that a missing key is reported as a failed diagnosis
analyzeHomeworkWithClientInTry(key, response) ==
    LET textResponse == IF "text" \in DOMAIN response THEN response.text ELSE "undefined"
        data == JSONParse(textResponse)
    IN  IF ~key \/ Falsy(textResponse) \/ data.threw \/ ~CanSetProperty(data)
        THEN Throw("Failed to diagnose homework.")
        ELSE Return(CompatibilityFields @@ data.props)

\* analyzeHomework, given the key and what the service answers
analyzeHomework(key, response) ==
    IF ~key THEN Throw(MissingKeyMessage)
    ELSE LET textResponse == Get(response, "text")
             data == JSONParse(textResponse)
         IN  IF Falsy(textResponse) \/ data.threw \/ ~CanSetProperty(data)
             THEN Throw("Failed to diagnose homework.")
             ELSE Return(Spread(data.props, CompatibilityFields))

\* evaluatePracticeResponse: whatever JSON.parse gives is returned
evaluatePracticeResponse(key, response) ==
    IF ~key THEN Throw(MissingKeyMessage)
    ELSE LET textResponse == Get(response, "text")
             data == JSONParse(textResponse)
         IN  IF Falsy(textResponse) \/ data.threw
             THEN Throw("Failed to evaluate answer.")
             ELSE Return(data)

\* the five properties diagnosisSchema requires
RequiredFields == {"stage", "conceptual_misunderstanding", "new_practice_question",
                   "tutor_feedback", "next_instruction"}

\* the parts of a stage-1 request: the prompt, then the image and the audio
\* clip when there is one
DiagnoseParts(imageFile, textContext, clip) ==
    <<[text |-> <<"stage-1 prompt",
                  IF textContext = "" THEN "No specific text provided." ELSE textContext>>]>>
    \o (IF imageFile # Null
        THEN <<[inlineData |-> [mimeType |-> imageFile.type, data |-> "image"]]>>
        ELSE <<>>)
    \o (IF clip # Null
        THEN <<[inlineData |-> [mimeType |-> "audio/wav", data |-> "audio"]]>>
        ELSE <<>>)

\* historyStr: one role-labelled line per message, in order
HistoryLines(chat) ==
    [i \in 1..Len(chat) |->
        (IF chat[i].role = "user" THEN "Student" ELSE "Tutor") \o ": " \o chat[i].content]

\* the parts of a stage-2 request
EvaluateParts(practiceContext, chat, currentInput, clip) ==
    <<[text |-> <<"stage-2 prompt", practiceContext.topic, practiceContext.question,
                  HistoryLines(chat),
                  IF currentInput = "" THEN "(Audio Input Provided)" ELSE currentInput>>]>>
    \o (IF clip # Null
        THEN <<[inlineData |-> [mimeType |-> "audio/wav", data |-> "audio"]]>>
        ELSE <<>>)

-----------------------------------------------------------------------------
(* History Store.  localStorage holds, under HISTORY_KEY, nothing (getItem *)
(* returns null) or a string; the string JSON.stringify writes is modelled *)
(* by the array it parses back to.                                         *)

JSONStringify(items) == [json |-> items]

Min(a, b) == IF a < b THEN a ELSE b

\* a slice that keeps one element more
SliceInclusive(seq, n) == SubSeq(seq, 1, Min(n + 1, Len(seq)))

\* Array.prototype.slice(0, n)
Slice(seq, n) == SubSeq(seq, 1, Min(n, Len(seq)))

\* localStorage refuses access: getItem and removeItem throw
Unreadable == [denied |-> "SecurityError"]

\* stored ? JSON.parse(stored) : [], and [] from the catch block: the value
\* getHistory returns, with whether it is an array.  The stored value is
\* absent, what saveToHistory wrote (json), or a text some other writer left
\* under the key (raw).
getHistoryResult(stored) ==
    IF stored = Null THEN [isArray |-> TRUE, value |-> <<>>]
    ELSE IF "json" \in DOMAIN stored THEN [isArray |-> TRUE, value |-> stored.json]
    ELSE IF "raw" \in DOMAIN stored
    THEN IF Falsy(stored.raw) \/ JSONParse(stored.raw).threw
         THEN [isArray |-> TRUE, value |-> <<>>]
         ELSE IF JSONParse(stored.raw).kind = "array"
         THEN [isArray |-> TRUE, value |-> JSONParse(stored.raw).props]
         ELSE [isArray |-> FALSE, value |-> JSONParse(stored.raw)]
    ELSE [isArray |-> TRUE, value |-> <<>>]

\* getHistory
getHistory(stored) == getHistoryResult(stored).value

\* a saveToHistory that puts the new item last
saveToHistoryAppending(result, userContext, stored, now) ==
    LET hist == IF stored = Null THEN <<>> ELSE stored.json
        newItem == [user_context |-> userContext, id |-> now, timestamp |-> now] @@ result
        updated == SubSeq(hist \o <<newItem>>, 1, IF Len(hist) < 50 THEN Len(hist) + 1 ELSE 50)
    IN  [newItem |-> newItem, stored |-> [json |-> updated]]

\* saveToHistory at time `now`: the item it creates and the string it writes
saveToHistory(result, userContext, stored, now) ==
    LET hist == getHistory(stored)
        newItem == Spread(result, [user_context |-> userContext, id |-> now, timestamp |-> now])
        updated == Slice(<<newItem>> \o hist, HISTORY_LIMIT)
    IN  [newItem |-> newItem, stored |-> JSONStringify(updated)]

\* a clearHistory that removes nothing
clearHistoryKeeping(stored) == stored

\* clearHistory: removeItem, which throws and removes nothing when access
\* is refused
clearHistory(stored) == IF stored = Unreadable THEN stored ELSE Null

\* an item an earlier visit left in localStorage
EarlierItem ==
    saveToHistory(analyzeHomework(TRUE, WithText(TextD1)).value, "", Null, 0).newItem

-----------------------------------------------------------------------------
(* What the user can offer.                                                *)

PngAtLimit == [type |-> "image/png", size |-> MAX_FILE_SIZE_BYTES]
PdfFile == [type |-> "application/pdf", size |-> 2 * 1024 * 1024]
WebpTooBig == [type |-> "image/webp", size |-> MAX_FILE_SIZE_BYTES + 1]
Files == {PngAtLimit, PdfFile, WebpTooBig}

\* the Blob the recorder builds in onstop
Clip == [type |-> "audio/webm"]

TextInputs == {"", "ctx"}
ReplyTexts == {"", "F = ma"}

\* what the service answers to a stage-1 and to a stage-2 request; a fresh
\* diagnosis (TextD2) differs from the stored one (TextD1) in its instruction
Stage1Responses == {NoText, WithText(TextNotJSON), WithText(TextD2),
                    WithText(TextNoQuestion)}
Stage2Responses == {NoText, WithText(TextNull), WithText(TextContinue), WithText(TextMastery)}

-----------------------------------------------------------------------------
(* App: rendering.                                                         *)

\* a validateFile that checks the type only
validateFileTypeOnly(file) ==
    IF file.type \notin ALLOWED_TYPES
    THEN "Invalid file format. Please upload a JPG, PNG, or WebP image."
    ELSE NoError

\* validateFile: the message, or null
validateFile(file) ==
    IF file.type \notin ALLOWED_TYPES
    THEN "Invalid file format. Please upload a JPG, PNG, or WebP image."
    ELSE IF file.size > MAX_FILE_SIZE_BYTES
    THEN "File size exceeds the 10MB limit. Please upload a smaller image."
    ELSE NoError

\* which parts of the tree are rendered
MainView == ~crashed /\ ~showHistory
HistoryView == ~crashed /\ showHistory
DropZoneVisible == MainView /\ image = Null
InitialInputVisible == MainView /\ diagnosis = Null
ReplyAreaVisible == MainView /\ diagnosis # Null /\ ~isMasteryAchieved
MasteryPanelVisible == MainView /\ diagnosis # Null /\ isMasteryAchieved

\* x.new_practice_question.subject / .topic throws when the question is absent
ReadsQuestion(x) == "new_practice_question" \in DOMAIN x

\* the render throws: the history view reads every item's question, the main
\* view reads the active diagnosis's
RenderThrows(dg, show, hist) ==
    IF show THEN \E i \in 1..Len(hist) : ~ReadsQuestion(hist[i])
    ELSE dg # Null /\ ~ReadsQuestion(dg)

\* the commit that follows a handler: a render that throws unmounts the
\* tree; a recorder keeps hasRecording only while it stays mounted
Commit(rec) ==
    /\ crashed' = RenderThrows(diagnosis', showHistory', history')
    /\ recorder' = [stage1 |-> rec.stage1 /\ InitialInputVisible /\ InitialInputVisible',
                    reply |-> rec.reply /\ ReplyAreaVisible /\ ReplyAreaVisible']

env == <<apiKey, gw>>
work == <<calls, submitted>>
store == <<storage, clock, recorded>>

-----------------------------------------------------------------------------
(* App: the handlers.                                                      *)

\* the reset both upload handlers perform once the file is accepted
AcceptImage(file) ==
    /\ image' = file
    /\ diagnosis' = Null
    /\ chatHistory' = <<>>
    /\ replyText' = ""
    /\ replyAudio' = Null
    /\ isMasteryAchieved' = FALSE
    /\ error' = NoError
    /\ UNCHANGED <<textInput, audioBlob, isLoading, history, showHistory>>

RejectImage(message) ==
    /\ error' = message
    /\ UNCHANGED <<image, textInput, audioBlob, diagnosis, chatHistory, replyText,
                   replyAudio, isMasteryAchieved, isLoading, history, showHistory>>

\* handleImageUpload: the file input's onChange, after the picker was opened
\* from the drop zone, the Change button or the Upload New Homework button
handleImageUpload(file) ==
    /\ DropZoneVisible
    /\ IF validateFile(file) # NoError THEN RejectImage(validateFile(file))
       ELSE AcceptImage(file)
    /\ Commit(recorder)
    /\ UNCHANGED <<env, store, work>>

\* handleDrop: a file dropped on the drop zone
handleDrop(file) ==
    /\ DropZoneVisible
    /\ IF validateFile(file) # NoError THEN RejectImage(validateFile(file))
       ELSE AcceptImage(file)
    /\ Commit(recorder)
    /\ UNCHANGED <<env, store, work>>

\* what the Change button and the Upload New Homework button do before they
\* open the picker
DiscardSession ==
    /\ image' = Null
    /\ diagnosis' = Null
    /\ chatHistory' = <<>>
    /\ UNCHANGED <<textInput, audioBlob, replyText, replyAudio, isMasteryAchieved,
                   isLoading, error, history, showHistory>>
    /\ Commit(recorder)
    /\ UNCHANGED <<env, store, work>>

ChangeImage ==
    /\ MainView /\ image # Null
    /\ DiscardSession

UploadNewHomework ==
    /\ MasteryPanelVisible
    /\ DiscardSession

\* the stage-1 textarea
setTextInput(t) ==
    /\ InitialInputVisible
    /\ t # textInput
    /\ textInput' = t
    /\ UNCHANGED <<image, audioBlob, diagnosis, chatHistory, replyText, replyAudio,
                   isMasteryAchieved, isLoading, error, history, showHistory>>
    /\ Commit(recorder)
    /\ UNCHANGED <<env, store, work>>

\* the reply textarea
setReplyText(t) ==
    /\ ReplyAreaVisible
    /\ t # replyText
    /\ replyText' = t
    /\ UNCHANGED <<image, textInput, audioBlob, diagnosis, chatHistory, replyAudio,
                   isMasteryAchieved, isLoading, error, history, showHistory>>
    /\ Commit(recorder)
    /\ UNCHANGED <<env, store, work>>

\* AudioRecorder of the stage-1 input: onstop hands the clip to setAudioBlob
RecordAudio ==
    /\ InitialInputVisible /\ ~recorder.stage1
    /\ audioBlob' = Clip
    /\ UNCHANGED <<image, textInput, diagnosis, chatHistory, replyText, replyAudio,
                   isMasteryAchieved, isLoading, error, history, showHistory>>
    /\ Commit([recorder EXCEPT !.stage1 = TRUE])
    /\ UNCHANGED <<env, store, work>>

\* deleteRecording of the stage-1 recorder
DeleteAudio ==
    /\ InitialInputVisible /\ recorder.stage1
    /\ audioBlob' = Null
    /\ UNCHANGED <<image, textInput, diagnosis, chatHistory, replyText, replyAudio,
                   isMasteryAchieved, isLoading, error, history, showHistory>>
    /\ Commit([recorder EXCEPT !.stage1 = FALSE])
    /\ UNCHANGED <<env, store, work>>

\* AudioRecorder of the reply area: onstop hands the clip to setReplyAudio
RecordReplyAudio ==
    /\ ReplyAreaVisible /\ ~recorder.reply
    /\ replyAudio' = Clip
    /\ UNCHANGED <<image, textInput, audioBlob, diagnosis, chatHistory, replyText,
                   isMasteryAchieved, isLoading, error, history, showHistory>>
    /\ Commit([recorder EXCEPT !.reply = TRUE])
    /\ UNCHANGED <<env, store, work>>

\* deleteRecording of the reply recorder
DeleteReplyAudio ==
    /\ ReplyAreaVisible /\ recorder.reply
    /\ replyAudio' = Null
    /\ UNCHANGED <<image, textInput, audioBlob, diagnosis, chatHistory, replyText,
                   isMasteryAchieved, isLoading, error, history, showHistory>>
    /\ Commit([recorder EXCEPT !.reply = FALSE])
    /\ UNCHANGED <<env, store, work>>

\* the History / Back to Tutor button
ToggleHistory ==
    /\ ~crashed
    /\ showHistory' = ~showHistory
    /\ UNCHANGED <<image, textInput, audioBlob, diagnosis, chatHistory, replyText,
                   replyAudio, isMasteryAchieved, isLoading, error, history>>
    /\ Commit(recorder)
    /\ UNCHANGED <<env, store, work>>

-----------------------------------------------------------------------------
(* App: the two stages.  A call in flight is a record in `calls`; it holds *)
(* what the continuation reads from the handler's closure.                 *)

\* a call record that forgets the text typed at submission
DiagnoseCallWithoutContext(ctx) == [kind |-> "diagnose", textInput |-> ""]
DiagnoseCall(ctx) == [kind |-> "diagnose", textInput |-> ctx]
\* updatedHistory is what the request was built from
EvaluateCall(updatedHistory) == [kind |-> "evaluate", chatHistory |-> updatedHistory]
InFlight == BagCardinality(calls)

\* a first message that is attributed to the student
InstructionMessageFromUser(content) == [role |-> "user", content |-> content, feedbackType |-> "INFO"]

\* the first message of a session
InstructionMessage(content) == [role |-> "tutor", content |-> content, feedbackType |-> "INFO"]

\* a Start Diagnosis that neither the button nor the handler's first line
\* keeps from running without an image
handleInitialAnalysisWithoutImage ==
    /\ InitialInputVisible /\ ~isLoading
    /\ \/ /\ ~apiKey
          /\ isLoading' = FALSE
          /\ error' = analyzeHomework(apiKey, NoText).message
          /\ UNCHANGED work
       \/ /\ apiKey /\ submitted < MaxSubmits
          /\ isLoading' = TRUE
          /\ error' = NoError
          /\ calls' = calls (+) SetToBag({DiagnoseCall(textInput)})
          /\ submitted' = submitted + 1
    /\ UNCHANGED <<image, textInput, audioBlob, diagnosis, chatHistory, replyText,
                   replyAudio, isMasteryAchieved, history, showHistory>>
    /\ Commit(recorder)
    /\ UNCHANGED <<env, store>>

\* handleInitialAnalysis up to its await, from the Start Diagnosis button
\* (rendered while no diagnosis is active, disabled while loading or without
\* an image).  Without an API key analyzeHomework rejects before any request
\* and the handler runs on to its end.
handleInitialAnalysis ==
    /\ InitialInputVisible /\ ~isLoading /\ image # Null
    /\ \/ /\ ~apiKey
          /\ isLoading' = FALSE
          /\ error' = analyzeHomework(apiKey, NoText).message
          /\ UNCHANGED work
       \/ /\ apiKey /\ submitted < MaxSubmits
          /\ isLoading' = TRUE
          /\ error' = NoError
          /\ calls' = calls (+) SetToBag({DiagnoseCall(textInput)})
          /\ submitted' = submitted + 1
    /\ UNCHANGED <<image, textInput, audioBlob, diagnosis, chatHistory, replyText,
                   replyAudio, isMasteryAchieved, history, showHistory>>
    /\ Commit(recorder)
    /\ UNCHANGED <<env, store>>

\* a failure handler that sends the request again by itself
DiagnoseFailsAndRetries(c, r) ==
    /\ BagIn(c, calls) /\ c.kind = "diagnose"
    /\ analyzeHomework(apiKey, r).threw
    /\ calls' = calls (+) SetToBag({c})
    /\ UNCHANGED submitted
    /\ IF crashed THEN UNCHANGED uiVars
       ELSE /\ error' = analyzeHomework(apiKey, r).message
            /\ isLoading' = FALSE
            /\ UNCHANGED <<image, textInput, audioBlob, diagnosis, chatHistory, replyText,
                           replyAudio, isMasteryAchieved, history, showHistory>>
            /\ Commit(recorder)
    /\ UNCHANGED <<env, store>>

\* the rest of handleInitialAnalysis when analyzeHomework throws
DiagnoseFails(c, r) ==
    /\ BagIn(c, calls) /\ c.kind = "diagnose"
    /\ analyzeHomework(apiKey, r).threw
    /\ calls' = calls (-) SetToBag({c})
    /\ UNCHANGED submitted
    /\ IF crashed THEN UNCHANGED uiVars
       ELSE /\ error' = analyzeHomework(apiKey, r).message
            /\ isLoading' = FALSE
            /\ UNCHANGED <<image, textInput, audioBlob, diagnosis, chatHistory, replyText,
                           replyAudio, isMasteryAchieved, history, showHistory>>
            /\ Commit(recorder)
    /\ UNCHANGED <<env, store>>

\* the rest of handleInitialAnalysis when analyzeHomework returns data and
\* saveToHistory stores it
DiagnoseSucceeds(c, r) ==
    /\ BagIn(c, calls) /\ c.kind = "diagnose"
    /\ ~analyzeHomework(apiKey, r).threw
    /\ calls' = calls (-) SetToBag({c})
    /\ UNCHANGED submitted
    /\ LET data == analyzeHomework(apiKey, r).value
           saved == saveToHistory(data, c.textInput, storage, clock + 1)
       IN  /\ storage' = saved.stored
           /\ clock' = clock + 1
           /\ recorded' = <<saved.newItem>> \o recorded
           /\ IF crashed THEN UNCHANGED uiVars
              ELSE /\ diagnosis' = data
                   /\ chatHistory' = <<InstructionMessage(Get(data, "next_instruction"))>>
                   /\ history' = getHistory(storage')
                   /\ replyText' = ""
                   /\ replyAudio' = Null
                   /\ isLoading' = FALSE
                   /\ UNCHANGED <<image, textInput, audioBlob, isMasteryAchieved, error,
                                  showHistory>>
                   /\ Commit(recorder)
    /\ UNCHANGED env

\* localStorage.setItem can throw (the quota is exceeded, storage is disabled)
StorageMessage == "The quota has been exceeded."

\* the rest of handleInitialAnalysis when analyzeHomework returns data and
\* saveToHistory throws: the catch block runs after the first two setters
DiagnoseSaveThrows(c, r) ==
    /\ BagIn(c, calls) /\ c.kind = "diagnose"
    /\ ~analyzeHomework(apiKey, r).threw
    /\ calls' = calls (-) SetToBag({c})
    /\ UNCHANGED submitted
    /\ LET data == analyzeHomework(apiKey, r).value
       IN  IF crashed THEN UNCHANGED uiVars
           ELSE /\ diagnosis' = data
                /\ chatHistory' = <<InstructionMessage(Get(data, "next_instruction"))>>
                /\ error' = StorageMessage
                /\ isLoading' = FALSE
                /\ UNCHANGED <<image, textInput, audioBlob, replyText, replyAudio,
                               isMasteryAchieved, history, showHistory>>
                /\ Commit(recorder)
    /\ UNCHANGED <<env, store>>

\* userMsg
UserMessage == [role |-> "user",
                content |-> IF replyText # "" THEN replyText ELSE "(Audio Response)"]

\* a guard that looks at the diagnosis only
ReplyGuardIgnoresContent == diagnosis = Null

\* (!replyText && !replyAudio) || !diagnosis
ReplyGuardFails == IF replyText = "" /\ replyAudio = Null THEN TRUE ELSE diagnosis = Null

\* handlePracticeReply up to its await.  Its own guard is the first line; the
\* callers differ in theirs.
PracticeReplyStarts ==
    /\ ~ReplyGuardFails
    /\ submitted < MaxSubmits
    /\ submitted' = submitted + 1
    /\ chatHistory' = Append(chatHistory, UserMessage)
    /\ replyText' = ""
    /\ replyAudio' = Null
    /\ \/ /\ ~apiKey
          /\ isLoading' = FALSE
          /\ error' = evaluatePracticeResponse(apiKey, NoText).message
          /\ UNCHANGED calls
       \/ /\ apiKey
          /\ isLoading' = TRUE
          /\ UNCHANGED error
          /\ calls' = calls (+) SetToBag({EvaluateCall(chatHistory')})
    /\ UNCHANGED <<image, textInput, audioBlob, diagnosis, isMasteryAchieved, history,
                   showHistory>>
    /\ Commit(recorder)
    /\ UNCHANGED <<env, store>>

\* handlePracticeReply returning at its first line
PracticeReplyReturns ==
    /\ ReplyGuardFails
    /\ UNCHANGED vars

\* the Reply button: disabled while loading or with nothing to send
ReplyButton ==
    /\ ReplyAreaVisible
    /\ ~(isLoading \/ (replyText = "" /\ replyAudio = Null))
    /\ PracticeReplyStarts

\* Enter in the reply textarea: calls handlePracticeReply whatever isLoading is
ReplyEnterKey ==
    /\ ReplyAreaVisible
    /\ PracticeReplyStarts \/ PracticeReplyReturns

\* reading feedback.feedback_message of null throws
NullReadMessage == "Cannot read properties of null (reading 'feedback_message')"

\* tutorMsg
TutorMessage(feedback) ==
    [role |-> "tutor",
     content |-> Get(feedback, "feedback_message") \o " " \o Get(feedback, "next_instruction"),
     feedbackType |-> Get(feedback, "evaluation_result")]

\* the try block of handlePracticeReply throws: evaluatePracticeResponse
\* threw, or returned null so that building tutorMsg throws
ReplyThrows(res) == IF res.threw THEN TRUE ELSE res.value.kind = "null"

\* the rest of handlePracticeReply when its try block throws
EvaluateFails(c, r) ==
    /\ BagIn(c, calls) /\ c.kind = "evaluate"
    /\ LET res == evaluatePracticeResponse(apiKey, r)
       IN  /\ ReplyThrows(res)
           /\ calls' = calls (-) SetToBag({c})
           /\ UNCHANGED submitted
           /\ IF crashed THEN UNCHANGED uiVars
              ELSE /\ error' = IF res.threw THEN res.message ELSE NullReadMessage
                   /\ isLoading' = FALSE
                   /\ UNCHANGED <<image, textInput, audioBlob, diagnosis, chatHistory,
                                  replyText, replyAudio, isMasteryAchieved, history,
                                  showHistory>>
                   /\ Commit(recorder)
    /\ UNCHANGED <<env, store>>

\* a continuation that writes the transcript from its closure, updatedHistory,
\* instead of appending to the current one
EvaluateSucceedsFromClosure(c, r) ==
    /\ BagIn(c, calls) /\ c.kind = "evaluate"
    /\ LET res == evaluatePracticeResponse(apiKey, r)
       IN  /\ ~ReplyThrows(res)
           /\ calls' = calls (-) SetToBag({c})
           /\ UNCHANGED submitted
           /\ IF crashed THEN UNCHANGED uiVars
              ELSE /\ chatHistory' = Append(c.chatHistory, TutorMessage(res.value.props))
                   /\ isMasteryAchieved' =
                        IF Get(res.value.props, "dialogue_action") = "MASTERY_ACHIEVED"
                        THEN TRUE ELSE isMasteryAchieved
                   /\ isLoading' = FALSE
                   /\ UNCHANGED <<image, textInput, audioBlob, diagnosis, replyText,
                                  replyAudio, error, history, showHistory>>
                   /\ Commit(recorder)
    /\ UNCHANGED <<env, store>>

\* the rest of handlePracticeReply when evaluatePracticeResponse returns
EvaluateSucceeds(c, r) ==
    /\ BagIn(c, calls) /\ c.kind = "evaluate"
    /\ LET res == evaluatePracticeResponse(apiKey, r)
       IN  /\ ~ReplyThrows(res)
           /\ calls' = calls (-) SetToBag({c})
           /\ UNCHANGED submitted
           /\ IF crashed THEN UNCHANGED uiVars
              ELSE /\ chatHistory' = Append(chatHistory, TutorMessage(res.value.props))
                   /\ isMasteryAchieved' =
                        IF Get(res.value.props, "dialogue_action") = "MASTERY_ACHIEVED"
                        THEN TRUE ELSE isMasteryAchieved
                   /\ isLoading' = FALSE
                   /\ UNCHANGED <<image, textInput, audioBlob, diagnosis, replyText,
                                  replyAudio, error, history, showHistory>>
                   /\ Commit(recorder)
    /\ UNCHANGED <<env, store>>

\* a handleHistorySelect that keeps the transcript of the session it leaves
handleHistorySelectKeepingTranscript(item) ==
    /\ HistoryView
    /\ \E i \in 1..Len(history) : history[i] = item
    /\ diagnosis' = item
    /\ showHistory' = FALSE
    /\ chatHistory' = chatHistory \o <<InstructionMessage(Get(item, "next_instruction"))>>
    /\ image' = Null
    /\ audioBlob' = Null
    /\ replyText' = ""
    /\ replyAudio' = Null
    /\ error' = NoError
    /\ isMasteryAchieved' = FALSE
    /\ UNCHANGED <<textInput, isLoading, history>>
    /\ Commit(recorder)
    /\ UNCHANGED <<env, store, work>>

\* handleHistorySelect: a card of the history view
handleHistorySelect(item) ==
    /\ HistoryView
    /\ \E i \in 1..Len(history) : history[i] = item
    /\ diagnosis' = item
    /\ showHistory' = FALSE
    /\ chatHistory' = <<InstructionMessage(Get(item, "next_instruction"))>>
    /\ image' = Null
    /\ audioBlob' = Null
    /\ replyText' = ""
    /\ replyAudio' = Null
    /\ error' = NoError
    /\ isMasteryAchieved' = FALSE
    /\ UNCHANGED <<textInput, isLoading, history>>
    /\ Commit(recorder)
    /\ UNCHANGED <<env, store, work>>

\* a handleClearHistory that clears the store and leaves the list on screen
handleClearHistoryKeepingList(confirmed) ==
    /\ HistoryView /\ Len(history) > 0
    /\ IF confirmed
       THEN /\ storage' = clearHistory(storage)
            /\ recorded' = <<>>
            /\ UNCHANGED <<clock, history>>
       ELSE UNCHANGED <<store, history>>
    /\ UNCHANGED <<image, textInput, audioBlob, diagnosis, chatHistory, replyText,
                   replyAudio, isMasteryAchieved, isLoading, error, showHistory>>
    /\ Commit(recorder)
    /\ UNCHANGED <<env, work>>

\* handleClearHistory: the button is rendered while the list is not empty
handleClearHistory(confirmed) ==
    /\ HistoryView /\ Len(history) > 0
    /\ IF confirmed
       THEN /\ storage' = clearHistory(storage)
            /\ history' = <<>>
            /\ recorded' = <<>>
            /\ UNCHANGED clock
       ELSE UNCHANGED <<store, history>>
    /\ UNCHANGED <<image, textInput, audioBlob, diagnosis, chatHistory, replyText,
                   replyAudio, isMasteryAchieved, isLoading, error, showHistory>>
    /\ Commit(recorder)
    /\ UNCHANGED <<env, work>>

-----------------------------------------------------------------------------
(* The session state machine.                                              *)

\* the useState initialisers, and the two recorders as they mount
InitialRender ==
    /\ image = Null
    /\ textInput = ""
    /\ audioBlob = Null
    /\ diagnosis = Null
    /\ chatHistory = <<>>
    /\ replyText = ""
    /\ replyAudio = Null
    /\ isMasteryAchieved = FALSE
    /\ isLoading = FALSE
    /\ error = NoError
    /\ showHistory = FALSE
    /\ recorder = [stage1 |-> FALSE, reply |-> FALSE]
    /\ crashed = FALSE

\* the state after the first render and the effect that loads the history
Init ==
    /\ InitialRender
    /\ storage \in {Null, JSONStringify(<<EarlierItem>>)}
    /\ history = getHistory(storage)
    /\ apiKey \in BOOLEAN
    /\ clock = 0
    /\ calls = EmptyBag
    /\ submitted = 0
    /\ recorded = getHistory(storage)
    /\ gw = Null

Next ==
    \/ \E file \in Files : handleImageUpload(file)
    \/ \E file \in Files : handleDrop(file)
    \/ ChangeImage
    \/ UploadNewHomework
    \/ \E t \in ReplyTexts : setReplyText(t)
    \/ RecordReplyAudio
    \/ DeleteReplyAudio
    \/ ToggleHistory
    \/ handleInitialAnalysis
    \/ \E c \in BagToSet(calls), r \in Stage1Responses : DiagnoseFails(c, r)
    \/ \E c \in BagToSet(calls), r \in Stage1Responses : DiagnoseSucceeds(c, r)
    \/ \E c \in BagToSet(calls), r \in Stage1Responses : DiagnoseSaveThrows(c, r)
    \/ ReplyButton
    \/ ReplyEnterKey
    \/ \E c \in BagToSet(calls), r \in Stage2Responses : EvaluateFails(c, r)
    \/ \E c \in BagToSet(calls), r \in Stage2Responses : EvaluateSucceeds(c, r)
    \/ \E i \in 1..Len(history) : handleHistorySelect(history[i])
    \/ \E confirmed \in BOOLEAN : handleClearHistory(confirmed)

Spec == Init /\ [][Next]_vars

\* the same machine with the stage-1 context inputs
FullNext ==
    \/ Next
    \/ \E t \in TextInputs : setTextInput(t)
    \/ RecordAudio
    \/ DeleteAudio

FullSpec == Init /\ [][FullNext]_vars

\* the session machine with typed input only: the stage-1 text box is
\* used, the recorders are not
TypedNext ==
    \/ \E file \in Files : handleImageUpload(file)
    \/ \E file \in Files : handleDrop(file)
    \/ ChangeImage
    \/ UploadNewHomework
    \/ \E t \in TextInputs : setTextInput(t)
    \/ \E t \in ReplyTexts : setReplyText(t)
    \/ ToggleHistory
    \/ handleInitialAnalysis
    \/ \E c \in BagToSet(calls), r \in Stage1Responses : DiagnoseFails(c, r)
    \/ \E c \in BagToSet(calls), r \in Stage1Responses : DiagnoseSucceeds(c, r)
    \/ \E c \in BagToSet(calls), r \in Stage1Responses : DiagnoseSaveThrows(c, r)
    \/ ReplyButton
    \/ ReplyEnterKey
    \/ \E c \in BagToSet(calls), r \in Stage2Responses : EvaluateFails(c, r)
    \/ \E c \in BagToSet(calls), r \in Stage2Responses : EvaluateSucceeds(c, r)
    \/ \E i \in 1..Len(history) : handleHistorySelect(history[i])
    \/ \E confirmed \in BOOLEAN : handleClearHistory(confirmed)

TypedSpec == Init /\ [][TypedNext]_vars

-----------------------------------------------------------------------------
(* The history store on its own: record and clear calls on an empty store. *)

\* what a record call of this machine is given
StoreResult == analyzeHomework(TRUE, WithText(TextD1)).value

StoreInit ==
    /\ InitialRender
    /\ storage = Null
    /\ history = <<>>
    /\ apiKey = TRUE
    /\ clock = 0
    /\ calls = EmptyBag
    /\ submitted = 0
    /\ recorded = <<>>
    /\ gw = Null

\* record: one saveToHistory call
StoreRecord ==
    /\ clock < MaxRecords
    /\ LET saved == saveToHistory(StoreResult, "", storage, clock + 1)
       IN  /\ storage' = saved.stored
           /\ recorded' = <<saved.newItem>> \o recorded
    /\ clock' = clock + 1
    /\ UNCHANGED <<uiVars, env, work>>

\* clear: one clearHistory call
StoreClear ==
    /\ storage' = clearHistory(storage)
    /\ recorded' = <<>>
    /\ UNCHANGED <<clock, uiVars, env, work>>

StoreNext ==
    \/ StoreRecord
    \/ StoreClear

StoreSpec == StoreInit /\ [][StoreNext]_vars

-----------------------------------------------------------------------------
(* The history store over any stored value: list and clear calls, and      *)
(* other writers of the key.  gw keeps the last call and the one before.   *)

StoredTexts == {TextNull, TextNumber, TextString, TextEmptyObject, TextArray, TextNotJSON,
                TextEmpty}
StoredValues ==
    {Null, Unreadable, JSONStringify(<<>>), JSONStringify(<<EarlierItem>>),
     saveToHistory(StoreResult, "ctx", JSONStringify(<<EarlierItem>>), 1).stored}
    \cup {[raw |-> t] : t \in StoredTexts}

ValuesInit ==
    /\ InitialRender
    /\ storage \in StoredValues
    /\ history = <<>>
    /\ apiKey = TRUE
    /\ clock = 0
    /\ calls = EmptyBag
    /\ submitted = 0
    /\ recorded = <<>>
    /\ gw = Null

\* the call before this one, and the value it found stored
LastCall == IF gw = Null THEN "none" ELSE gw.call
LastStored == IF gw = Null THEN Null ELSE gw.stored

\* list: one getHistory call
CallGetHistory ==
    /\ gw' = [call |-> "getHistory", after |-> LastCall, was |-> LastStored,
              stored |-> storage, outcome |-> getHistoryResult(storage)]
    /\ UNCHANGED <<uiVars, apiKey, store, work>>

\* clear: one clearHistory call
CallClearHistory ==
    /\ storage' = clearHistory(storage)
    /\ gw' = [call |-> "clearHistory", after |-> LastCall, was |-> LastStored,
              stored |-> storage, outcome |-> Null]
    /\ UNCHANGED <<uiVars, apiKey, clock, recorded, work>>

\* another writer (another tab, another version of the page) sets the key
StorageWritten(content) ==
    /\ storage # Unreadable /\ content # Unreadable
    /\ storage' = content
    /\ gw' = [call |-> "setItem", after |-> LastCall, was |-> LastStored,
              stored |-> storage, outcome |-> Null]
    /\ UNCHANGED <<uiVars, apiKey, clock, recorded, work>>

ValuesNext ==
    \/ CallGetHistory
    \/ CallClearHistory
    \/ \E content \in StoredValues : StorageWritten(content)

ValuesSpec == ValuesInit /\ [][ValuesNext]_vars

-----------------------------------------------------------------------------
(* The model gateway on its own: one call after another, each with its own *)
(* inputs and its own answer from the service.  gw keeps the last call.    *)

JpegSmall == [type |-> "image/jpeg", size |-> 1]
GatewayImages == {PngAtLimit, JpegSmall}
Clips == {Null, Clip}

ServiceTexts == {TextD1, TextD2, TextNoInstruction, TextNoQuestion, TextContinue, TextMastery,
                 TextEmptyObject, TextArray, TextNumber, TextString, TextNull, TextNotJSON,
                 TextEmpty}
ServiceResponses == {NoText} \cup {WithText(t) : t \in ServiceTexts}

PracticeContext == [topic |-> Question.topic, question |-> Question.question_text]
Transcripts == {<<InstructionMessage("i1"), [role |-> "user", content |-> "F = ma"]>>,
                <<InstructionMessage("i1"), [role |-> "user", content |-> "(Audio Response)"]>>}

GatewayInit ==
    /\ InitialRender
    /\ storage = Null
    /\ history = <<>>
    /\ apiKey \in BOOLEAN
    /\ clock = 0
    /\ calls = EmptyBag
    /\ submitted = 0
    /\ recorded = <<>>
    /\ gw = Null

\* one analyzeHomework call: the request is built and sent only with a key
CallAnalyzeHomework(imageFile, textContext, clip, response) ==
    /\ gw' = [call |-> "analyzeHomework",
              request |-> IF apiKey THEN DiagnoseParts(imageFile, textContext, clip) ELSE <<>>,
              response |-> IF apiKey THEN response ELSE Null,
              outcome |-> analyzeHomework(apiKey, response)]
    /\ UNCHANGED <<uiVars, apiKey, store, work>>

\* one evaluatePracticeResponse call
CallEvaluatePracticeResponse(chat, clip, response) ==
    /\ gw' = [call |-> "evaluatePracticeResponse",
              request |-> IF apiKey
                          THEN EvaluateParts(PracticeContext, chat, chat[Len(chat)].content, clip)
                          ELSE <<>>,
              response |-> IF apiKey THEN response ELSE Null,
              outcome |-> evaluatePracticeResponse(apiKey, response)]
    /\ UNCHANGED <<uiVars, apiKey, store, work>>

GatewayNext ==
    \/ \E imageFile \in GatewayImages, textContext \in TextInputs, clip \in Clips,
          response \in ServiceResponses :
            CallAnalyzeHomework(imageFile, textContext, clip, response)
    \/ \E chat \in Transcripts, clip \in Clips, response \in ServiceResponses :
            CallEvaluatePracticeResponse(chat, clip, response)

GatewaySpec == GatewayInit /\ [][GatewayNext]_vars

-----------------------------------------------------------------------------
(* Properties of the session state machine.                                *)

\* the states of the session
Idle == diagnosis = Null
ActiveSession == diagnosis # Null /\ ~isMasteryAchieved
MasteryAchieved == diagnosis # Null /\ isMasteryAchieved

\* C1: in every reachable state with an active diagnosis the transcript is
\* not empty and its first message is a tutor message whose content is the
\* active diagnosis's next_instruction, however gateway completions
\* interleave with uploads, history loads and reply submissions.
FirstMessageIsInstruction ==
    diagnosis # Null =>
        /\ Len(chatHistory) >= 1
        /\ chatHistory[1].role = "tutor"
        /\ chatHistory[1].content = Get(diagnosis, "next_instruction")

\* a session loaded from history, two turns into the practice, with a call
\* still in flight
TurnInFlightInLoadedSession ==
    /\ diagnosis # Null
    /\ "id" \in DOMAIN diagnosis
    /\ InFlight > 0
    /\ Len(chatHistory) >= 3

\* a step of the machine that starts a new session or leaves the current one
NewSessionStep ==
    \/ diagnosis' # diagnosis
    \/ \E i \in 1..Len(history) : handleHistorySelect(history[i])

\* a step that puts one more evaluate call in flight
EvaluateStarted ==
    \E c \in BagToSet(calls') : c.kind = "evaluate" /\ CopiesIn(c, calls') > CopiesIn(c, calls)

\* C2: once the mastery flag is true in a session, then until a new session
\* is started no evaluate call is started, no message is appended to the
\* transcript and the flag stays true.
MasteryIsTerminal ==
    [][(MasteryAchieved /\ ~crashed /\ ~NewSessionStep) =>
            /\ isMasteryAchieved'
            /\ chatHistory' = chatHistory
            /\ ~EvaluateStarted]_vars

\* a session is started: stage 1 returned a diagnosis, or a history item was
\* loaded, while the tree is mounted
SessionStarted ==
    /\ ~crashed
    /\ \/ \E c \in BagToSet(calls), r \in Stage1Responses : DiagnoseSucceeds(c, r)
       \/ \E c \in BagToSet(calls), r \in Stage1Responses : DiagnoseSaveThrows(c, r)
       \/ \E i \in 1..Len(history) : handleHistorySelect(history[i])

\* C5: immediately after a session is started, by a successful stage-1
\* diagnosis or by loading a history item, the transcript is exactly one
\* message, with role tutor and content equal to the new diagnosis's
\* next_instruction, whatever the transcript held before.
SessionStartsWithOneInstruction ==
    [][SessionStarted =>
            /\ diagnosis' # Null
            /\ Len(chatHistory') = 1
            /\ chatHistory'[1].role = "tutor"
            /\ chatHistory'[1].content = Get(diagnosis', "next_instruction")]_vars

\* a freshly diagnosed session that replaced a transcript a late evaluate
\* completion had written, its single message being the instruction
FreshSessionOverLateTranscript ==
    /\ diagnosis # Null
    /\ "id" \notin DOMAIN diagnosis
    /\ isMasteryAchieved
    /\ Len(chatHistory) = 1
    /\ chatHistory[1].content = "i2"

\* C6: when a reply submitted in ActiveSession is answered successfully, the
\* transcript afterwards is the transcript before the submission followed by
\* the user message and then the tutor message; the tutor message's content
\* is feedback_message followed by next_instruction and its feedbackType is
\* evaluation_result; the state becomes MasteryAchieved if and only if
\* dialogue_action = MASTERY_ACHIEVED and otherwise stays ActiveSession.
ReplyAnswered ==
    [][\A c \in BagToSet(calls), r \in Stage2Responses :
            (~crashed /\ EvaluateSucceeds(c, r)) =>
                LET feedback == evaluatePracticeResponse(apiKey, r).value.props
                    last == chatHistory'[Len(chatHistory')]
                IN  /\ Len(chatHistory') = Len(c.chatHistory) + 1
                    /\ SubSeq(chatHistory', 1, Len(c.chatHistory)) = c.chatHistory
                    /\ last.role = "tutor"
                    /\ last.content = feedback.feedback_message \o " " \o feedback.next_instruction
                    /\ last.feedbackType = feedback.evaluation_result
                    /\ MasteryAchieved' <=> feedback.dialogue_action = "MASTERY_ACHIEVED"
                    /\ ActiveSession' <=> feedback.dialogue_action # "MASTERY_ACHIEVED"]_vars

\* C7: an accepted reply puts the user message (the typed text, or the
\* placeholder when only audio was supplied) in the transcript before the
\* evaluate call resolves; if the call fails the transcript is exactly the
\* transcript before the submission plus that user message, the state stays
\* ActiveSession with the mastery flag unchanged, and the error is surfaced
\* outside the transcript.
FailedReplyKeepsUserMessage ==
    [][/\ (~crashed /\ (ReplyButton \/ (ReplyEnterKey /\ ~ReplyGuardFails))) =>
            /\ chatHistory' = Append(chatHistory, UserMessage)
            /\ UserMessage.content = IF replyText # "" THEN replyText ELSE "(Audio Response)"
       /\ \A c \in BagToSet(calls), r \in Stage2Responses :
            (~crashed /\ EvaluateFails(c, r)) =>
                /\ chatHistory' = c.chatHistory
                /\ ActiveSession'
                /\ isMasteryAchieved' = isMasteryAchieved
                /\ error' # NoError]_vars

\* C8: when a homework submission fails the machine is left in Idle: no
\* diagnosis is active, the transcript is empty, the persisted history is
\* unchanged, the loading flag is cleared and an error message is surfaced.
FailedSubmissionLeavesIdle ==
    [][\A c \in BagToSet(calls), r \in Stage1Responses :
            (~crashed /\ (DiagnoseFails(c, r) \/ DiagnoseSaveThrows(c, r))) =>
                /\ Idle'
                /\ chatHistory' = <<>>
                /\ storage' = storage
                /\ ~isLoading'
                /\ error' # NoError]_vars

\* C10: whenever a stage-1 call completes successfully the resulting state
\* is ActiveSession: the returned diagnosis is active and the mastery flag
\* is false, whatever happened before or while the call was in flight.
DiagnosisOpensActiveSession ==
    [][\A c \in BagToSet(calls), r \in Stage1Responses :
            (~crashed /\ DiagnoseSucceeds(c, r)) =>
                /\ diagnosis' = analyzeHomework(apiKey, r).value
                /\ ~isMasteryAchieved']_vars

-----------------------------------------------------------------------------
(* Properties of the history store.                                        *)

\* C3: after any sequence of record and clear calls on an empty store the
\* persisted history has at most 50 items and is exactly the min(n, 50) most
\* recently recorded items since the last clear, most recent first.
StoreKeepsFiftyMostRecent ==
    LET stored == getHistory(storage)
        n == Len(recorded)
    IN  /\ Len(stored) <= 50
        /\ Len(stored) = IF n < 50 THEN n ELSE 50
        /\ \A i \in 1..Len(stored) : stored[i] = recorded[i]

\* the fifty-first record since the last clear has been made
FiftyFirstRecorded ==
    /\ Len(recorded) = 51
    /\ Len(getHistory(storage)) = 50

\* C4: after every record call the item just recorded is first in the
\* stored sequence, the items stored before keep their order behind it
\* (most recent first), and an eviction removes the oldest item.
RecordPrependsAndEvictsOldest ==
    [][StoreRecord =>
            LET old == getHistory(storage)
                new == getHistory(storage')
            IN  /\ Len(new) >= 1
                /\ new[1] = recorded'[1]
                /\ new[1].timestamp = clock'
                /\ \A i \in 2..Len(new) : new[i] = old[i - 1]
                /\ \A i \in 1..(Len(new) - 1) : new[i].timestamp > new[i + 1].timestamp
                /\ \A i \in 1..Len(old) :
                        (\A j \in 1..Len(new) : new[j] # old[i]) =>
                            \A k \in 1..Len(old) : old[k].timestamp >= old[i].timestamp]_vars

\* a record call on a full store has evicted twice
EvictedTwice ==
    /\ Len(recorded) = 52
    /\ Len(getHistory(storage)) = 50
    /\ getHistory(storage)[1].id = clock
    /\ getHistory(storage)[50].id = clock - 49

-----------------------------------------------------------------------------
(* Properties of the model gateway.                                        *)

\* C9: for every response of the model service, analyzeHomework either
\* returns an object with all of stage, conceptual_misunderstanding,
\* new_practice_question, tutor_feedback and next_instruction, or fails; it
\* never returns an object that lacks one of them.
DiagnoseReturnsCompleteOrFails ==
    (gw # Null /\ Get(gw, "call") = "analyzeHomework") =>
        IF gw.outcome.threw THEN TRUE
        ELSE RequiredFields \subseteq DOMAIN gw.outcome.value

-----------------------------------------------------------------------------
(* Further properties of the session state machine.                        *)

\* C11: from MasteryAchieved the Upload New Homework button leaves the
\* machine Idle with a fresh session: no active diagnosis, no image, an
\* empty transcript and the mastery flag false, whether or not a file is
\* chosen afterwards.
NewHomeworkStartsFresh ==
    [][UploadNewHomework =>
            /\ diagnosis' = Null
            /\ image' = Null
            /\ chatHistory' = <<>>
            /\ ~isMasteryAchieved']_vars

\* C12: at most one gateway call, diagnose or evaluate, is outstanding at
\* any time.
AtMostOneCallOutstanding == InFlight <= 1

\* a step that replaces the transcript by that of another session, or
\* discards it: an accepted upload, the Change and Upload New Homework
\* buttons, a stage-1 completion, a history load
TranscriptReplaced ==
    \/ \E file \in Files : validateFile(file) = NoError /\ (handleImageUpload(file) \/ handleDrop(file))
    \/ ChangeImage
    \/ UploadNewHomework
    \/ \E c \in BagToSet(calls), r \in Stage1Responses : DiagnoseSucceeds(c, r)
    \/ \E c \in BagToSet(calls), r \in Stage1Responses : DiagnoseSaveThrows(c, r)
    \/ \E i \in 1..Len(history) : handleHistorySelect(history[i])

\* earlier is a prefix of later
IsPrefix(earlier, later) ==
    /\ Len(earlier) <= Len(later)
    /\ SubSeq(later, 1, Len(earlier)) = earlier

\* C13: within one session the transcript is append-only: on every step
\* that does not replace the transcript by a new session's, the earlier
\* transcript is a prefix of the later one.
TranscriptAppendOnly ==
    [][~TranscriptReplaced => IsPrefix(chatHistory, chatHistory')]_vars

\* two replies were sent while both were in flight and both were answered
TwoOverlappingTurnsAnswered ==
    /\ diagnosis # Null
    /\ InFlight = 0
    /\ Len(chatHistory) = 5
    /\ chatHistory[2].role = "user"
    /\ chatHistory[3].role = "user"
    /\ chatHistory[4].role = "tutor"
    /\ chatHistory[5].role = "tutor"

\* a step that puts one more diagnose call in flight, with the text typed
\* at that moment
DiagnoseStartedWithContext ==
    \E c \in BagToSet(calls') :
        /\ c.kind = "diagnose"
        /\ CopiesIn(c, calls') > CopiesIn(c, calls)
        /\ c.textInput = textInput

\* C14: the persisted history changes only through a successful stage-1
\* completion, which records exactly one item, placed first and carrying
\* the returned diagnosis and the text context submitted with it, or
\* through clear; every other step leaves it unchanged.
HistoryChangesOnlyByRecordOrClear ==
    [][/\ (handleInitialAnalysis /\ apiKey) => DiagnoseStartedWithContext
       /\ storage' # storage =>
            \/ handleClearHistory(TRUE) /\ getHistory(storage') = <<>>
            \/ \E c \in BagToSet(calls), r \in Stage1Responses :
                    /\ DiagnoseSucceeds(c, r)
                    /\ LET data == analyzeHomework(apiKey, r).value
                           old == getHistory(storage)
                           new == getHistory(storage')
                       IN  /\ Len(new) = Len(old) + 1
                           /\ \A i \in 1..Len(old) : new[i + 1] = old[i]
                           /\ \A f \in DOMAIN data : new[1][f] = data[f]
                           /\ new[1].user_context = c.textInput]_vars

\* the item recorded carries the text typed when the homework was
\* submitted, although the text box was emptied while the call was in flight
RecordedWithSubmittedContext ==
    /\ Len(getHistory(storage)) = 2
    /\ getHistory(storage)[1].user_context = "ctx"
    /\ textInput = ""

-----------------------------------------------------------------------------
(* Further properties of the history store.                                *)

\* C15: whatever the store held (nothing, any number of items, a corrupted
\* blob), a clear followed by a list returns the empty sequence.
ClearThenListIsEmpty ==
    (gw # Null /\ LastCall = "getHistory" /\ gw.after = "clearHistory") =>
        /\ gw.outcome.isArray
        /\ gw.outcome.value = <<>>

\* a list that followed the clear of a store holding text that is not JSON
ListedAfterClearingCorruptedStore ==
    /\ gw # Null
    /\ LastCall = "getHistory"
    /\ gw.after = "clearHistory"
    /\ gw.was = [raw |-> TextNotJSON]
    /\ gw.outcome.value = <<>>

\* C16: getHistory never raises and always returns a sequence: the empty
\* one whenever the stored value is absent, unreadable, not JSON, or JSON
\* that is not an array of items.
ListAlwaysReturnsSequence ==
    (gw # Null /\ LastCall = "getHistory") =>
        /\ gw.outcome.isArray
        /\ (gw.stored = Null \/ gw.stored = Unreadable \/ "raw" \in DOMAIN gw.stored)
                => gw.outcome.value = <<>>

-----------------------------------------------------------------------------
(* Further properties of the model gateway and of the submit actions.      *)

\* C17: without an API key analyzeHomework and evaluatePracticeResponse
\* each fail with the configuration error before any request is built or
\* sent to the model service.
NoKeyNoRequest ==
    (gw # Null /\ ~apiKey) =>
        /\ gw.outcome.threw
        /\ gw.outcome.message = "API Key is missing. Please set process.env.API_KEY."
        /\ gw.request = <<>>
        /\ gw.response = Null

\* evaluatePracticeResponse was called without a key
EvaluateCalledWithoutKey ==
    /\ ~apiKey
    /\ gw # Null
    /\ gw.call = "evaluatePracticeResponse"

\* the file is not a JPEG, PNG or WebP image, or is larger than 10 MB
Unacceptable(file) ==
    \/ file.type \notin {"image/jpeg", "image/png", "image/webp"}
    \/ file.size > 10 * 1024 * 1024

\* C18: a file of another type than JPEG, PNG or WebP, or larger than
\* 10 MB, offered through the file input or by drag and drop, is rejected
\* locally: a validation message is surfaced, no gateway call is made, and
\* image, diagnosis, transcript, mastery flag and history are unchanged.
BadFileRejectedLocally ==
    [][\A file \in Files :
            (Unacceptable(file) /\ (handleImageUpload(file) \/ handleDrop(file))) =>
                /\ error' # NoError
                /\ error' = validateFile(file)
                /\ calls' = calls
                /\ UNCHANGED <<image, diagnosis, chatHistory, isMasteryAchieved, history,
                               storage>>]_vars

\* a file that is too large was rejected in the middle of a practice turn
LargeFileRejectedDuringTurn ==
    /\ error = "File size exceeds the 10MB limit. Please upload a smaller image."
    /\ diagnosis # Null
    /\ Len(chatHistory) = 2
    /\ InFlight = 1

\* C19: a submit action surfaces at most its own error: after a submit
\* action that succeeds, no error message of an earlier action is shown.
SucceededSubmitShowsNoError ==
    [][/\ \A c \in BagToSet(calls), r \in Stage1Responses :
            (~crashed /\ DiagnoseSucceeds(c, r)) => error' = NoError
       /\ \A c \in BagToSet(calls), r \in Stage2Responses :
            (~crashed /\ EvaluateSucceeds(c, r)) => error' = NoError]_vars

\* C20: each submit action issues at most one request to the model service,
\* and no other step issues one: after a failed call nothing is sent until
\* the user submits again.
OneRequestPerSubmit ==
    [][/\ InFlight' <= InFlight + 1
       /\ InFlight' > InFlight => (handleInitialAnalysis \/ ReplyButton \/ ReplyEnterKey)
       /\ \A c \in BagToSet(calls), r \in Stage1Responses :
            DiagnoseFails(c, r) => InFlight' = InFlight - 1
       /\ \A c \in BagToSet(calls), r \in Stage2Responses :
            EvaluateFails(c, r) => InFlight' = InFlight - 1]_vars

\* a diagnose call has failed and nothing is in flight
FailedAndNothingInFlight ==
    /\ error = "Failed to diagnose homework."
    /\ submitted = 1
    /\ InFlight = 0
    /\ ~isLoading

\* a step that puts one more diagnose call in flight
DiagnoseIssued ==
    \E c \in BagToSet(calls') :
        c.kind = "diagnose" /\ CopiesIn(c, calls') > CopiesIn(c, calls)

\* the image part of the request analyzeHomework builds from its arguments
ImagePart(imageFile, textContext, clip) ==
    LET parts == DiagnoseParts(imageFile, textContext, clip)
    IN  IF Len(parts) >= 2 THEN parts[2].inlineData.mimeType ELSE "none"

EmptyReplyIsNoOp ==
    [][(/\ (replyText = "" /\ replyAudio = Null) \/ diagnosis = Null
        /\ ReplyButton \/ ReplyEnterKey) =>
            /\ chatHistory' = chatHistory
            /\ calls' = calls
            /\ UNCHANGED <<isLoading, error, isMasteryAchieved>>]_vars

\* the reply box is empty and there is no clip while a turn is in flight
\* and an error is shown: Enter reaches handlePracticeReply
EmptyReplyBoxDuringTurn ==
    /\ ReplyAreaVisible
    /\ replyText = "" /\ replyAudio = Null
    /\ isLoading /\ InFlight = 1
    /\ error # NoError
    /\ ENABLED ReplyEnterKey

\* a diagnose call completes after the image it was issued for was taken
\* away; an evaluate call completes after the transcript it was issued from
\* was replaced
SessionLeftSince(c) ==
    IF c.kind = "diagnose" THEN image = Null
    ELSE ~IsPrefix(c.chatHistory, chatHistory)

\* C23: a gateway completion affects only the session that issued the
\* call: when the user loaded a history item, changed the image or started
\* new homework while the call was in flight, the late completion does not
\* change the new state's diagnosis, appends no message to its transcript
\* and does not set its mastery flag.
LateCompletionLeavesNewSession ==
    [][/\ \A c \in BagToSet(calls), r \in Stage1Responses :
            (/\ ~crashed
             /\ SessionLeftSince(c)
             /\ DiagnoseSucceeds(c, r) \/ DiagnoseSaveThrows(c, r)) =>
                UNCHANGED <<diagnosis, chatHistory, isMasteryAchieved>>
       /\ \A c \in BagToSet(calls), r \in Stage2Responses :
            (/\ ~crashed
             /\ SessionLeftSince(c)
             /\ EvaluateSucceeds(c, r)) =>
                UNCHANGED <<diagnosis, chatHistory, isMasteryAchieved>>]_vars

-----------------------------------------------------------------------------
(* The history store shared by two execution contexts (two tabs of the     *)
(* same origin).  saveToHistory reads the key (getHistory) and later       *)
(* writes it (setItem); another context can run between the two.  gw keeps *)
(* each context's position in saveToHistory and what it has read.          *)

Contexts == {1, 2}

\* a context outside saveToHistory
Outside == [pc |-> "outside", stored |-> Null, now |-> 0]

SharedInit ==
    /\ InitialRender
    /\ storage = Null
    /\ history = <<>>
    /\ apiKey = TRUE
    /\ clock = 0
    /\ calls = EmptyBag
    /\ submitted = 0
    /\ recorded = <<>>
    /\ gw = [context |-> [t \in Contexts |-> Outside], interleaved |-> FALSE]

\* a saveToHistory that starts from an empty list instead of reading the key
RecordReadsNothing(t) ==
    /\ clock < MaxSharedRecords
    /\ gw.context[t].pc = "outside"
    /\ clock' = clock + 1
    /\ gw' = [context |-> [gw.context EXCEPT ![t] =
                                [pc |-> "read", stored |-> Null, now |-> clock']],
              interleaved |-> gw.interleaved \/ \E u \in Contexts \ {t} : gw.context[u].pc = "read"]
    /\ UNCHANGED <<uiVars, apiKey, storage, recorded, work>>

\* saveToHistory up to newItem: the context reads the key and takes the time
RecordReads(t) ==
    /\ clock < MaxSharedRecords
    /\ gw.context[t].pc = "outside"
    /\ clock' = clock + 1
    /\ gw' = [context |-> [gw.context EXCEPT ![t] =
                                [pc |-> "read", stored |-> storage, now |-> clock']],
              interleaved |-> gw.interleaved \/ \E u \in Contexts \ {t} : gw.context[u].pc = "read"]
    /\ UNCHANGED <<uiVars, apiKey, storage, recorded, work>>

\* the rest of saveToHistory: the context writes the list it has built from
\* what it read, and returns newItem
RecordWrites(t) ==
    /\ gw.context[t].pc = "read"
    /\ LET saved == saveToHistory(StoreResult, "", gw.context[t].stored, gw.context[t].now)
       IN  /\ storage' = saved.stored
           /\ recorded' = <<saved.newItem>> \o recorded
    /\ gw' = [gw EXCEPT !.context[t] = Outside]
    /\ UNCHANGED <<uiVars, apiKey, clock, work>>

SharedNext ==
    \/ \E t \in Contexts : RecordReads(t)
    \/ \E t \in Contexts : RecordWrites(t)

SharedSpec == SharedInit /\ [][SharedNext]_vars

\* the item is in the persisted history
Persisted(item) == \E i \in 1..Len(getHistory(storage)) : getHistory(storage)[i] = item

\* C24: record is not atomic across execution contexts.  As long as no
\* context has read the store while another was between its read and its
\* write, every item a record call has returned is in the store; an item
\* is lost only to such an interleaving (the state RecordLostToOtherContext
\* shows one, on a store of fewer than 49 items).
RecordLosesOnlyWhenInterleaved ==
    ~gw.interleaved => \A i \in 1..Len(recorded) : Persisted(recorded[i])

\* two contexts interleaved their records on a store of fewer than 49
\* items, both have returned, and the item one of them recorded is absent
RecordLostToOtherContext ==
    /\ gw.interleaved
    /\ \A t \in Contexts : gw.context[t].pc = "outside"
    /\ Len(recorded) = 2
    /\ Len(getHistory(storage)) < 49
    /\ \E i \in 1..Len(recorded) : ~Persisted(recorded[i])

\* C25: the loading flag is true in exactly those states in which a
\* gateway call is outstanding: it is never false while some call is still
\* in flight, and never true when none is.
LoadingIffCallOutstanding ==
    ~crashed => (isLoading <=> InFlight > 0)

\* C26: the recorder's displayed state agrees with the clip its parent
\* holds: a mounted recorder shows "Audio Recorded" if and only if the
\* parent's clip for that input, stage-1 audio or reply audio, is not null,
\* so the clip a diagnose or evaluate call would send is absent whenever
\* the visible recorder shows no recording.
RecorderAgreesWithClip ==
    /\ InitialInputVisible => (recorder.stage1 <=> audioBlob # Null)
    /\ ReplyAreaVisible => (recorder.reply <=> replyAudio # Null)

\* C27: with a single execution context, after every handler completes the
\* history list the UI holds equals the sequence getHistory would return
\* from the persisted store, including after a record that failed and
\* after a clear confirmation that was cancelled.
HistoryListMatchesStore ==
    ~crashed => history = getHistory(storage)

\* one diagnosis was recorded and the next record failed: the list holds
\* the earlier item and the one recorded
RecordFailedAfterRecord ==
    /\ ~crashed
    /\ error = StorageMessage
    /\ diagnosis # Null
    /\ Len(history) = 2
    /\ InFlight = 0

====
